---- MODULE Spec2Model ----
(***************************************************************************)
(* Model of teuthology/orchestra/daemon.py: DaemonState (one handle per    *)
(* daemon instance) and DaemonGroup (the registry of handles).             *)
(*                                                                         *)
(* Objects live in two heaps, addressed by reference: `handles` holds the  *)
(* DaemonState objects, `procs` the remote processes that remote.run       *)
(* returned.  A null reference is None.  An object nothing can reach any   *)
(* more is collected at the end of the call that let it go (a DaemonState  *)
(* the registry has replaced, a process that exited and that its           *)
(* DaemonState no longer refers to), and its reference can be given to a   *)
(* later object, as the addresses of a Python heap are.  A process that    *)
(* has not exited stays, whether or not anything refers to it.             *)
(*                                                                         *)
(* Every method is one action.  The methods are operators over a frame     *)
(* (the heaps, the exception in flight, the calls made so far on the       *)
(* remote-execution collaborator), so that a method that calls another one *)
(* (restart -> stop, add_daemon -> stop and restart) is modelled whole.    *)
(* `last` is the record of the most recent call: its inputs, the exception *)
(* it ended with, what it returned, and the collaborator calls it made, in *)
(* order and with their arguments (the command a run launched, the bytes a *)
(* write sent).                                                            *)
(***************************************************************************)
EXTENDS Integers, Sequences, FiniteSets, TLC

VARIABLES handles, procs, daemons, last

vars == <<handles, procs, daemons, last>>

\* ------------------------------------------------------------------ bounds
\* remote processes in existence at one time
MaxProcs == 2

\* ------------------------------------------------------------------ values
None == 0

Roles == {"osd", "mon"}

\* id values: the integer 1, the string "1", the string "a"; v is the text
\* that str() yields for the value
IdVals == { [t |-> "int", v |-> "1"], [t |-> "str", v |-> "1"],
            [t |-> "str", v |-> "a"] }

\* str(id_)
Str(i) == [t |-> "str", v |-> i.v]

\* the empty dict
EmptyKw == [k \in {} |-> <<>>]

\* the (role, id_) pairs add_daemon is called with
AddKeys == { <<"osd", [t |-> "int", v |-> "1"]>>, <<"osd", [t |-> "str", v |-> "1"]>> }

\* command templates handed to add_daemon
PosTemplates == { <<"daemon-helper">> }
KwTemplates == { EmptyKw, [k \in {"args"} |-> <<"--foo">>] }

\* extra positional arguments of restart / extra_args of restart_with_args
ExtraArgs == { <<>>, <<"--bar", "-x">> }
\* keyword overrides of restart: none, a new option, a new value for the
\* nested args option
ExtraKwargs == { EmptyKw, [k \in {"logger"} |-> <<"L2">>],
                 [k \in {"args"} |-> <<"-y">>] }

\* signals handed to signal(): the ends of the signed 8-bit range, -1, 1,
\* and 128, which is outside the range
Sigs == { -128, -1, 1, 127, 128 }

\* outcomes of run.wait: normal return, or one of the failures it raises;
\* after the first three the process has exited
WaitExited == {"ok", "CommandFailedError", "CommandCrashedError"}
WaitOutcomes(alive, timed) ==
    WaitExited \cup {"ConnectionLostError"}
               \cup (IF alive /\ timed THEN {"Timeout"} ELSE {})
\* outcomes of remote.run
RunOutcomes == {"ok", "ConnectionLostError"}

\* ------------------------------------------------------------ dict helpers
\* dict.update
Update(d, k) ==
    [x \in (DOMAIN d) \cup (DOMAIN k) |-> IF x \in DOMAIN k THEN k[x] ELSE d[x]]

\* d[k] = v
SetItem(d, k, v) == [x \in (DOMAIN d) \cup {k} |-> IF x = k THEN v ELSE d[x]]

\* ------------------------------------------------------------------ frames
\* a call on the collaborator, as recorded in a frame: the process it was
\* made on (for run: the process it returned), its arguments and the
\* exception it raised ("none" if it returned)
CallRec(call, p, args, kwargs, exc) ==
    [call |-> call, p |-> p, args |-> args, kwargs |-> kwargs, exc |-> exc]

\* a reference no object of the heap (a function from references) has
NewRef(heap) ==
    CHOOSE n \in 1..(Cardinality(DOMAIN heap) + 1) :
        n \notin DOMAIN heap /\ \A m \in 1..(n - 1) : m \in DOMAIN heap

\* the heaps, the collaborator calls made so far, the exception in flight
\* ("none" if none) and the value the last collaborator call returned
Frame(hs, ps) ==
    [handles |-> hs, procs |-> ps, calls |-> <<>>, exc |-> "none", ret |-> None]

\* proc.stdin.close()
stdin_close(st, p) ==
    [st EXCEPT !.procs[p].stdinClosed = TRUE,
               !.calls = Append(@, CallRec("close", p, <<>>, EmptyKw, "none"))]

\* run.wait([proc], timeout): w is what the wait ends with
run_wait(st, p, w) ==
    [st EXCEPT !.procs[p].alive = IF w \in WaitExited THEN FALSE ELSE @,
               !.calls = Append(@, CallRec("wait", p, <<>>, EmptyKw,
                                           IF w = "ok" THEN "none" ELSE w)),
               !.exc = IF w = "ok" THEN "none" ELSE w]

\* remote.run(*cmd_args, **cmd_kwargs): ro is what the launch ends with; the
\* new process is the ret of the result
remote_run(st, h, cmd_args, cmd_kwargs, ro) ==
    IF ro = "ok"
    THEN LET p == NewRef(st.procs) IN
         [st EXCEPT !.procs = SetItem(@, p, [owner |-> h, alive |-> TRUE,
                                             stdinClosed |-> FALSE,
                                             droppedBy |-> "none"]),
                    !.ret = p,
                    !.calls = Append(@, CallRec("run", p, cmd_args, cmd_kwargs,
                                                "none"))]
    ELSE [st EXCEPT !.exc = ro,
                    !.calls = Append(@, CallRec("run", None, cmd_args, cmd_kwargs, ro))]

\* proc.stdin.write(data)
stdin_write(st, p, data) ==
    IF st.procs[p].stdinClosed
    THEN [st EXCEPT !.calls = Append(@, CallRec("write", p, data, EmptyKw, "IOError")),
                    !.exc = "IOError"]
    ELSE [st EXCEPT !.calls = Append(@, CallRec("write", p, data, EmptyKw, "none"))]

\* ------------------------------------------------------------- DaemonState
\* DaemonState.__init__
NewDaemonState(remote, role, id_, command_args, command_kwargs) ==
    [remote |-> remote, role |-> role, id_ |-> id_,
     command_args |-> command_args, command_kwargs |-> command_kwargs,
     proc |-> None]

\* DaemonState.running
running(st, h) == st.handles[h].proc # None

\* self.proc = None in method `by`
ClearProc(st, h, by) ==
    LET p == st.handles[h].proc IN
    IF p = None THEN st
    ELSE [st EXCEPT !.handles[h].proc = None, !.procs[p].droppedBy = by]

\* stop that waits first and closes the channel afterwards
stop_closesAfterWait(st, h, w) ==
    IF ~running(st, h) THEN st
    ELSE LET p == st.handles[h].proc
             st1 == run_wait(st, p, w)
         IN IF st1.exc # "none" THEN st1
            ELSE ClearProc(stdin_close(st1, p), h, "stop")

\* stop that forgets the process although the wait failed
stop_clearsOnFailure(st, h, w) ==
    IF ~running(st, h) THEN st
    ELSE LET p == st.handles[h].proc
         IN ClearProc(run_wait(stdin_close(st, p), p, w), h, "stop")

\* stop that forgets to forget the process
stop_keepsProc(st, h, w) ==
    IF ~running(st, h) THEN st
    ELSE LET p == st.handles[h].proc IN run_wait(stdin_close(st, p), p, w)

\* stop without the running() guard: it fails on the null reference
stop_noGuard(st, h, w) ==
    IF ~running(st, h) THEN [st EXCEPT !.exc = "AttributeError"]
    ELSE LET p == st.handles[h].proc
             st2 == run_wait(stdin_close(st, p), p, w)
         IN IF st2.exc # "none" THEN st2 ELSE ClearProc(st2, h, "stop")

\* DaemonState.stop
stop(st, h, w) ==
    IF ~running(st, h) THEN st
    ELSE LET p == st.handles[h].proc
             st1 == stdin_close(st, p)
             st2 == run_wait(st1, p, w)
         IN IF st2.exc # "none" THEN st2 ELSE ClearProc(st2, h, "stop")

\* DaemonState.reset
reset(st, h) == ClearProc(st, h, "reset")

\* wait_for_exit without the finally: a failed wait keeps the process
wait_for_exit_noFinally(st, h, w) ==
    IF st.handles[h].proc = None THEN st
    ELSE LET st1 == run_wait(st, st.handles[h].proc, w)
         IN IF st1.exc # "none" THEN st1 ELSE ClearProc(st1, h, "wait_for_exit")

\* DaemonState.wait_for_exit
wait_for_exit(st, h, w) ==
    IF st.handles[h].proc = None THEN st
    ELSE ClearProc(run_wait(st, st.handles[h].proc, w), h, "wait_for_exit")

\* restart that updates a copy of the stored keyword options
restart_launch_copiesKwargs(st, h, args, kwargs, ro) ==
    LET cmd_args == st.handles[h].command_args \o args
        cmd_kwargs == Update(st.handles[h].command_kwargs, kwargs)
        st2 == remote_run(st, h, cmd_args, cmd_kwargs, ro)
    IN IF st2.exc # "none" THEN st2
       ELSE [st2 EXCEPT !.handles[h].proc = st2.ret]

\* restart that extends the stored positional template in place
restart_launch_mergesArgs(st, h, args, kwargs, ro) ==
    LET cmd_args == st.handles[h].command_args \o args
        cmd_kwargs == Update(st.handles[h].command_kwargs, kwargs)
        st1 == [st EXCEPT !.handles[h].command_kwargs = cmd_kwargs,
                          !.handles[h].command_args = cmd_args]
        st2 == remote_run(st1, h, cmd_args, cmd_kwargs, ro)
    IN IF st2.exc # "none" THEN st2
       ELSE [st2 EXCEPT !.handles[h].proc = st2.ret]

\* lines 60-65 of restart: build the command from the template and the
\* call's extras, launch it, keep the process
restart_launch(st, h, args, kwargs, ro) ==
    LET cmd_args == st.handles[h].command_args \o args
        \* cmd_kwargs is the stored dict itself: update() changes the template
        cmd_kwargs == Update(st.handles[h].command_kwargs, kwargs)
        st1 == [st EXCEPT !.handles[h].command_kwargs = cmd_kwargs]
        st2 == remote_run(st1, h, cmd_args, cmd_kwargs, ro)
    IN IF st2.exc # "none" THEN st2
       ELSE [st2 EXCEPT !.handles[h].proc = st2.ret]

\* restart that goes on to launch although the stop failed
restart_ignoresStopFailure(st, h, args, kwargs, w, ro) ==
    LET st1 == IF st.handles[h].proc # None THEN stop(st, h, w) ELSE st
    IN restart_launch(st1, h, args, kwargs, ro)

\* restart that launches without stopping the old process
restart_noStop(st, h, args, kwargs, w, ro) ==
    restart_launch(st, h, args, kwargs, ro)

\* DaemonState.restart
restart(st, h, args, kwargs, w, ro) ==
    LET st1 == IF st.handles[h].proc # None THEN stop(st, h, w) ELSE st
    IN IF st1.exc # "none" THEN st1 ELSE restart_launch(st1, h, args, kwargs, ro)

\* restart_with_args that takes an empty list when there is no args option
restart_with_args_launch_defaultArgs(st, h, extra_args, ro) ==
    LET cmd_args == st.handles[h].command_args
        command_kwargs == st.handles[h].command_kwargs
        stored == IF "args" \in DOMAIN command_kwargs THEN command_kwargs["args"]
                  ELSE <<>>
        cmd_kwargs == SetItem(command_kwargs, "args", stored \o extra_args)
        st2 == remote_run(st, h, cmd_args, cmd_kwargs, ro)
    IN IF st2.exc # "none" THEN st2
       ELSE [st2 EXCEPT !.handles[h].proc = st2.ret]

\* restart_with_args that extends the stored args list instead of a copy
restart_with_args_launch_noCopy(st, h, extra_args, ro) ==
    LET cmd_args == st.handles[h].command_args
        command_kwargs == st.handles[h].command_kwargs
    IN IF "args" \notin DOMAIN command_kwargs
       THEN [st EXCEPT !.exc = "KeyError"]
       ELSE LET cmd_kwargs == [command_kwargs EXCEPT
                                 !["args"] = command_kwargs["args"] \o extra_args]
                st1 == [st EXCEPT !.handles[h].command_kwargs = cmd_kwargs]
                st2 == remote_run(st1, h, cmd_args, cmd_kwargs, ro)
            IN IF st2.exc # "none" THEN st2
               ELSE [st2 EXCEPT !.handles[h].proc = st2.ret]

\* restart_with_args that puts extra_args in front of the stored args
restart_with_args_launch_prepends(st, h, extra_args, ro) ==
    LET cmd_args == st.handles[h].command_args
        command_kwargs == st.handles[h].command_kwargs
    IN IF "args" \notin DOMAIN command_kwargs
       THEN [st EXCEPT !.exc = "KeyError"]
       ELSE LET cmd_kwargs == [command_kwargs EXCEPT
                                 !["args"] = extra_args \o command_kwargs["args"]]
                st2 == remote_run(st, h, cmd_args, cmd_kwargs, ro)
            IN IF st2.exc # "none" THEN st2
               ELSE [st2 EXCEPT !.handles[h].proc = st2.ret]

\* lines 77-85 of restart_with_args: launch from a copy of the template
\* whose nested args list has extra_args appended
restart_with_args_launch(st, h, extra_args, ro) ==
    LET cmd_args == st.handles[h].command_args
        command_kwargs == st.handles[h].command_kwargs
    IN IF "args" \notin DOMAIN command_kwargs
       THEN [st EXCEPT !.exc = "KeyError"]
       ELSE LET cmd_kwargs == [command_kwargs EXCEPT
                                 !["args"] = command_kwargs["args"] \o extra_args]
                st2 == remote_run(st, h, cmd_args, cmd_kwargs, ro)
            IN IF st2.exc # "none" THEN st2
               ELSE [st2 EXCEPT !.handles[h].proc = st2.ret]

\* DaemonState.restart_with_args
restart_with_args(st, h, extra_args, w, ro) ==
    LET st1 == IF st.handles[h].proc # None THEN stop(st, h, w) ELSE st
    IN IF st1.exc # "none" THEN st1
       ELSE restart_with_args_launch(st1, h, extra_args, ro)

\* pack with the unsigned format 'B' taken for the signed one: the value is
\* written as it is
pack_b_noWrap(sig) == << sig >>

\* struct.pack('!b', sig): one byte, the two's complement of sig
pack_b(sig) == << sig % 256 >>

\* signal that returns quietly when the daemon is not running
signal_skipsNotRunning(st, h, sig) ==
    IF st.handles[h].proc = None THEN st
    ELSE IF sig < -128 \/ sig > 127 THEN [st EXCEPT !.exc = "struct.error"]
    ELSE stdin_write(st, st.handles[h].proc, pack_b(sig))

\* DaemonState.signal
signal(st, h, sig) ==
    IF st.handles[h].proc = None THEN [st EXCEPT !.exc = "AttributeError"]
    ELSE IF sig < -128 \/ sig > 127 THEN [st EXCEPT !.exc = "struct.error"]
    ELSE stdin_write(st, st.handles[h].proc, pack_b(sig))

\* ------------------------------------------------------------- DaemonGroup
\* add_daemon that replaces the entry without stopping the old daemon
add_daemon_noStop(st, ds, new, remote, role, id_, args, kwargs, w, ro) ==
    LET ds1 == IF role \notin DOMAIN ds THEN SetItem(ds, role, EmptyKw) ELSE ds
        old == IF id_ \in DOMAIN ds1[role] THEN ds1[role][id_] ELSE None
        st2 == [st EXCEPT !.handles = SetItem(@, new,
                  NewDaemonState(remote, role, id_, args, kwargs))]
        ds2 == SetItem(ds1, role, SetItem(ds1[role], id_, new))
    IN [frame |-> restart(st2, new, <<>>, EmptyKw, w, ro),
        daemons |-> ds2, new |-> new, old |-> old]

\* add_daemon that catches the failure of the stop and replaces anyway
add_daemon_ignoresStopFailure(st, ds, new, remote, role, id_, args, kwargs, w, ro) ==
    LET ds1 == IF role \notin DOMAIN ds THEN SetItem(ds, role, EmptyKw) ELSE ds
        old == IF id_ \in DOMAIN ds1[role] THEN ds1[role][id_] ELSE None
        st1 == IF old # None THEN [stop(st, old, w) EXCEPT !.exc = "none"] ELSE st
        st2 == [st1 EXCEPT !.handles = SetItem(@, new,
                  NewDaemonState(remote, role, id_, args, kwargs))]
        ds2 == SetItem(ds1, role, SetItem(ds1[role], id_, new))
    IN [frame |-> restart(st2, new, <<>>, EmptyKw, w, ro),
        daemons |-> ds2, new |-> new, old |-> old]

\* add_daemon that takes the old entry out of the registry before it stops
\* it: a failed stop leaves the key without an entry
add_daemon_popsBeforeStop(st, ds, new, remote, role, id_, args, kwargs, w, ro) ==
    LET ds1 == IF role \notin DOMAIN ds THEN SetItem(ds, role, EmptyKw) ELSE ds
        old == IF id_ \in DOMAIN ds1[role] THEN ds1[role][id_] ELSE None
        st1 == IF old # None THEN stop(st, old, w) ELSE st
    IN IF st1.exc # "none"
       THEN [frame |-> st1,
             daemons |-> SetItem(ds1, role,
                            [i \in (DOMAIN ds1[role]) \ {id_} |-> ds1[role][i]]),
             new |-> None, old |-> None]
       ELSE LET st2 == [st1 EXCEPT !.handles = SetItem(@, new,
                          NewDaemonState(remote, role, id_, args, kwargs))]
                ds2 == SetItem(ds1, role, SetItem(ds1[role], id_, new))
            IN [frame |-> restart(st2, new, <<>>, EmptyKw, w, ro),
                daemons |-> ds2, new |-> new, old |-> old]

\* add_daemon that puts the new DaemonState in the registry only after its
\* restart returned
add_daemon_registersAfterLaunch(st, ds, new, remote, role, id_, args, kwargs, w, ro) ==
    LET ds1 == IF role \notin DOMAIN ds THEN SetItem(ds, role, EmptyKw) ELSE ds
        old == IF id_ \in DOMAIN ds1[role] THEN ds1[role][id_] ELSE None
        st1 == IF old # None THEN stop(st, old, w) ELSE st
    IN IF st1.exc # "none"
       THEN [frame |-> st1, daemons |-> ds1, new |-> None, old |-> None]
       ELSE LET st2 == [st1 EXCEPT !.handles = SetItem(@, new,
                          NewDaemonState(remote, role, id_, args, kwargs))]
                st3 == restart(st2, new, <<>>, EmptyKw, w, ro)
                ds2 == SetItem(ds1, role, SetItem(ds1[role], id_, new))
            IN IF st3.exc # "none"
               THEN [frame |-> st3, daemons |-> ds1, new |-> None, old |-> None]
               ELSE [frame |-> st3, daemons |-> ds2, new |-> new, old |-> old]

\* DaemonGroup.add_daemon; new is the reference of the DaemonState it makes.
\* The result holds the frame and the registry it ends with, the new
\* DaemonState (None if it made none) and the one it replaced (None if none)
add_daemon(st, ds, new, remote, role, id_, args, kwargs, w, ro) ==
    LET ds1 == IF role \notin DOMAIN ds THEN SetItem(ds, role, EmptyKw) ELSE ds
        old == IF id_ \in DOMAIN ds1[role] THEN ds1[role][id_] ELSE None
        st1 == IF old # None THEN stop(st, old, w) ELSE st
    IN IF st1.exc # "none"
       THEN [frame |-> st1, daemons |-> ds1, new |-> None, old |-> None]
       ELSE LET st2 == [st1 EXCEPT !.handles = SetItem(@, new,
                          NewDaemonState(remote, role, id_, args, kwargs))]
                ds2 == SetItem(ds1, role, SetItem(ds1[role], id_, new))
            IN [frame |-> restart(st2, new, <<>>, EmptyKw, w, ro),
                daemons |-> ds2, new |-> new, old |-> old]

\* get_daemon without the test for the role: the lookup of an unknown role fails
get_daemon_noRoleTest(ds, role, id_) ==
    IF role \notin DOMAIN ds THEN [ret |-> None, exc |-> "KeyError"]
    ELSE [ret |-> IF Str(id_) \in DOMAIN ds[role] THEN ds[role][Str(id_)] ELSE None,
          exc |-> "none"]

\* DaemonGroup.get_daemon: what it returns and the exception it raises
get_daemon(ds, role, id_) ==
    IF role \notin DOMAIN ds THEN [ret |-> None, exc |-> "none"]
    ELSE [ret |-> IF Str(id_) \in DOMAIN ds[role] THEN ds[role][Str(id_)] ELSE None,
          exc |-> "none"]

\* DaemonGroup.iter_daemons_of_role
iter_daemons_of_role(ds, role) ==
    IF role \in DOMAIN ds THEN {ds[role][i] : i \in DOMAIN ds[role]} ELSE {}

\* ----------------------------------------------------------------- actions
NoId == [t |-> "none", v |-> ""]

\* the record of a call: its inputs, the exception it ended with, what it
\* returned (ret, retSet), the collaborator calls it made, and for add_daemon
\* the DaemonState it replaced (old) with that object's proc field at the
\* moment it was let go (oldProc)
Call(op, h, role, id_, args, kwargs, sig, exc, calls, ret, retSet, old, oldProc) ==
    [op |-> op, h |-> h, role |-> role, id_ |-> id_, args |-> args,
     kwargs |-> kwargs, sig |-> sig, exc |-> exc, calls |-> calls,
     ret |-> ret, retSet |-> retSet, old |-> old, oldProc |-> oldProc]

HandleCall(op, h, args, kwargs, sig, st) ==
    Call(op, h, "", NoId, args, kwargs, sig, st.exc, st.calls, None, {}, None, None)

QueryCall(op, role, id_, exc, ret, retSet) ==
    Call(op, None, role, id_, <<>>, EmptyKw, 0, exc, <<>>, ret, retSet, None, None)

Here == Frame(handles, procs)

\* the DaemonState objects the registry holds
Registered(ds) == UNION { {ds[r][i] : i \in DOMAIN ds[r]} : r \in DOMAIN ds }

Init ==
    /\ handles = EmptyKw
    /\ procs = EmptyKw
    /\ daemons = EmptyKw
    /\ last = QueryCall("init", "", NoId, "none", None, {})

\* the outcomes the wait on h's process can have
WaitsOf(h, timed) ==
    IF h = None \/ handles[h].proc = None THEN {"ok"}
    ELSE WaitOutcomes(procs[handles[h].proc].alive, timed)

\* the heaps after a call that ends with frame st and registry ds: the
\* DaemonStates the registry holds, and the processes that have not exited
\* or that one of these refers to; the owner of a process is None once its
\* DaemonState is gone
Commit(st, ds) ==
    LET hs == Registered(ds)
        ps == { p \in DOMAIN st.procs :
                  \/ st.procs[p].alive
                  \/ \E h \in hs : st.handles[h].proc = p }
    IN /\ handles' = [h \in hs |-> st.handles[h]]
       /\ procs' = [p \in ps |-> IF st.procs[p].owner \in hs THEN st.procs[p]
                                   ELSE [st.procs[p] EXCEPT !.owner = None]]
       /\ daemons' = ds

AddDaemonOf(keys) ==
    \E key \in keys, args \in PosTemplates, kwargs \in KwTemplates,
       ro \in RunOutcomes :
      /\ Cardinality(DOMAIN procs) < MaxProcs
      /\ LET role == key[1]
             id_ == key[2]
             cur == IF role \in DOMAIN daemons /\ id_ \in DOMAIN daemons[role]
                    THEN daemons[role][id_] ELSE None
         IN \E w \in WaitsOf(cur, TRUE) :
              LET r == add_daemon(Here, daemons, NewRef(handles), "remote",
                                  role, id_, args, kwargs, w, ro)
              IN /\ Commit(r.frame, r.daemons)
                 /\ last' = Call("add_daemon", r.new, role, id_, args, kwargs, 0,
                                 r.frame.exc, r.frame.calls, None, {}, r.old,
                                 IF r.old = None THEN None
                                 ELSE r.frame.handles[r.old].proc)

\* add_daemon for any of the keys
AddDaemon == AddDaemonOf(AddKeys)

\* add_daemon for one key only: every call after the first replaces
AddDaemonOsd1 == AddDaemonOf({ <<"osd", [t |-> "str", v |-> "1"]>> })

GetDaemon ==
    \E role \in Roles, id_ \in IdVals :
      /\ LET r == get_daemon(daemons, role, id_)
         IN last' = QueryCall("get_daemon", role, id_, r.exc, r.ret, {})
      /\ UNCHANGED <<handles, procs, daemons>>

IterDaemonsOfRole ==
    \E role \in Roles :
      /\ last' = QueryCall("iter_daemons_of_role", role, NoId, "none", None,
                           iter_daemons_of_role(daemons, role))
      /\ UNCHANGED <<handles, procs, daemons>>

Stop ==
    \E h \in DOMAIN handles : \E w \in WaitsOf(h, TRUE) :
      LET st == stop(Here, h, w)
      IN /\ Commit(st, daemons)
         /\ last' = HandleCall("stop", h, <<>>, EmptyKw, 0, st)

Restart ==
    \E h \in DOMAIN handles, args \in ExtraArgs, kwargs \in ExtraKwargs,
       ro \in RunOutcomes :
      \E w \in WaitsOf(h, TRUE) :
        /\ Cardinality(DOMAIN procs) < MaxProcs
        /\ LET st == restart(Here, h, args, kwargs, w, ro)
           IN /\ Commit(st, daemons)
              /\ last' = HandleCall("restart", h, args, kwargs, 0, st)
     
RestartWithArgs ==
    \E h \in DOMAIN handles, extra_args \in ExtraArgs, ro \in RunOutcomes :
      \E w \in WaitsOf(h, TRUE) :
        /\ Cardinality(DOMAIN procs) < MaxProcs
        /\ LET st == restart_with_args(Here, h, extra_args, w, ro)
           IN /\ Commit(st, daemons)
              /\ last' = HandleCall("restart_with_args", h, extra_args, EmptyKw, 0, st)
     
Signal ==
    \E h \in DOMAIN handles, sig \in Sigs :
      LET st == signal(Here, h, sig)
      IN /\ Commit(st, daemons)
         /\ last' = HandleCall("signal", h, <<>>, EmptyKw, sig, st)

Reset ==
    \E h \in DOMAIN handles :
      LET st == reset(Here, h)
      IN /\ Commit(st, daemons)
         /\ last' = HandleCall("reset", h, <<>>, EmptyKw, 0, st)

WaitForExit ==
    \E h \in DOMAIN handles : \E w \in WaitsOf(h, FALSE) :
      LET st == wait_for_exit(Here, h, w)
      IN /\ Commit(st, daemons)
         /\ last' = HandleCall("wait_for_exit", h, <<>>, EmptyKw, 0, st)

\* one DaemonState at a time, all of its methods
NextHandle ==
    \/ AddDaemonOsd1
    \/ Stop
    \/ Restart
    \/ RestartWithArgs
    \/ Signal
    \/ Reset
    \/ WaitForExit

SpecHandle == Init /\ [][NextHandle]_vars

\* the registry with several keys; of the DaemonState methods the one that
\* decides what add_daemon finds: a stopped daemon, a running one, or one
\* whose stop failed
NextGroup ==
    \/ AddDaemon
    \/ GetDaemon
    \/ IterDaemonsOfRole
    \/ Stop

SpecGroup == Init /\ [][NextGroup]_vars

\* -------------------------------------------------------------- properties
\* the last collaborator call of a recorded call: for a restart that
\* succeeded, the launch
Launched(l) == l.calls[Len(l.calls)]

\* sub occurs in s as a contiguous run of tokens
Contains(s, sub) ==
    \E i \in 0..(Len(s) - Len(sub)) : SubSeq(s, i + 1, i + Len(sub)) = sub

Alive(p) == p \in DOMAIN procs /\ procs[p].alive

\* C1: running() is true right after a restart or restart_with_args that
\* returned, and false right after a stop, wait_for_exit or reset that
\* returned.
C1_RunningAfterCall ==
    (last.exc = "none" /\ last.h \in DOMAIN handles) =>
        /\ last.op \in {"restart", "restart_with_args"} => running(Here, last.h)
        /\ last.op \in {"stop", "wait_for_exit", "reset"} => ~running(Here, last.h)

\* a restart of a running daemon returned: it closed, waited and launched
W_C1_RestartedRunning ==
    /\ last.op = "restart" /\ last.exc = "none" /\ Len(last.calls) = 3
    /\ running(Here, last.h)

\* C2 as claimed: a restart() with no new arguments that follows a
\* successful restart(extraArgs), extraArgs not empty, launches a command
\* whose positional tokens include extraArgs.
C2_PositionalExtrasPersist ==
    [][ ( /\ last.op = "restart" /\ last.exc = "none" /\ last.args # <<>>
          /\ last'.op = "restart" /\ last'.h = last.h /\ last'.args = <<>>
          /\ last'.exc = "none" )
        => Contains(Launched(last').args, last.args) ]_vars

\* C2 as amended: restart launches the stored positional tokens followed by
\* the call's extra arguments and leaves the stored positional tokens as
\* they were; a restart() with no new arguments that follows a
\* restart(extraArgs) launches exactly the stored positional tokens, without
\* extraArgs.
C2_RestartKeepsPositionalTemplate ==
    [][ /\ last'.op = "restart" =>
            /\ handles'[last'.h].command_args = handles[last'.h].command_args
            /\ last'.exc = "none" =>
                 Launched(last').args = handles[last'.h].command_args \o last'.args
        /\ ( /\ last.op = "restart" /\ last.exc = "none" /\ last.args # <<>>
             /\ last'.op = "restart" /\ last'.h = last.h /\ last'.args = <<>>
             /\ last'.exc = "none" )
           => /\ Launched(last').args = handles[last.h].command_args
              /\ ~Contains(Launched(last').args, last.args) ]_vars

\* a restart with extra positional arguments returned: the extras were
\* launched, the stored positional tokens are the ones add_daemon was given
W_C2_RestartedWithExtras ==
    /\ last.op = "restart" /\ last.exc = "none" /\ last.args = <<"--bar", "-x">>
    /\ Launched(last).args = <<"daemon-helper", "--bar", "-x">>
    /\ handles[last.h].command_args = <<"daemon-helper">>

\* C3: restart_with_args leaves the stored template (positional tokens,
\* keyword options, nested args) as it was, and a plain restart() that
\* follows it launches the stored template, without extra_args.
C3_RestartWithArgsKeepsTemplate ==
    [][ /\ last'.op = "restart_with_args" =>
            /\ handles'[last'.h].command_args = handles[last'.h].command_args
            /\ handles'[last'.h].command_kwargs = handles[last'.h].command_kwargs
        /\ ( /\ last.op = "restart_with_args" /\ last.args # <<>>
             /\ last'.op = "restart" /\ last'.h = last.h /\ last'.args = <<>>
             /\ last'.kwargs = EmptyKw /\ last'.exc = "none" )
           => /\ Launched(last').args = handles[last.h].command_args
              /\ Launched(last').kwargs = handles[last.h].command_kwargs
              /\ ~Contains(Launched(last').args, last.args)
              /\ "args" \in DOMAIN Launched(last').kwargs =>
                   ~Contains(Launched(last').kwargs["args"], last.args) ]_vars

\* restart_with_args with extra arguments returned and the stored args list
\* is still the one add_daemon was given
W_C3_TemplateKept ==
    /\ last.op = "restart_with_args" /\ last.exc = "none"
    /\ last.args = <<"--bar", "-x">>
    /\ handles[last.h].command_kwargs["args"] = <<"--foo">>

\* C4: restart_with_args(E) on a template with nested args A launches with
\* nested args A followed by E, the stored positional tokens and the other
\* stored keyword options, and keeps the launched process.
C4_LaunchesArgsThenExtras ==
    [][ (last'.op = "restart_with_args" /\ last'.exc = "none") =>
          LET t == handles[last'.h]
              run == Launched(last')
          IN /\ run.call = "run"
             /\ run.args = t.command_args
             /\ DOMAIN run.kwargs = DOMAIN t.command_kwargs
             /\ run.kwargs["args"] = t.command_kwargs["args"] \o last'.args
             /\ \A k \in DOMAIN t.command_kwargs \ {"args"} :
                    run.kwargs[k] = t.command_kwargs[k]
             /\ handles'[last'.h].proc = run.p /\ run.p \in DOMAIN procs' ]_vars

\* restart_with_args(["--bar", "-x"]) returned on a template with
\* args=["--foo"] and a logger option
W_C4_FooBar ==
    /\ last.op = "restart_with_args" /\ last.exc = "none"
    /\ Launched(last).kwargs["args"] = <<"--foo", "--bar", "-x">>
    /\ "logger" \in DOMAIN Launched(last).kwargs

\* the DaemonState registered for (role, id_), None if there is none
EntryOf(ds, role, id_) ==
    IF role \in DOMAIN ds /\ id_ \in DOMAIN ds[role] THEN ds[role][id_] ELSE None

\* C5: an add_daemon that returns for a (role, id_) that has an entry leaves
\* one DaemonState at that key, the new one; the old one was stopped (its
\* process closed, waited for and exited, its proc None) before the new
\* process was launched; and a DaemonState leaves the registry only in an
\* add_daemon, and not while it is running().
C5_ReplaceStopsOldFirst ==
    [][ /\ \A h \in Registered(daemons) \ Registered(daemons') :
             last'.op = "add_daemon" /\ last'.old = h /\ last'.oldProc = None
        /\ ( /\ last'.op = "add_daemon" /\ last'.exc = "none"
             /\ EntryOf(daemons, last'.role, last'.id_) # None )
           => LET old == EntryOf(daemons, last'.role, last'.id_)
                  new == EntryOf(daemons', last'.role, last'.id_)
                  p == handles[old].proc
                  calls == last'.calls
              IN /\ new = last'.h /\ new # old /\ last'.old = old
                 /\ old \notin Registered(daemons')
                 /\ { h \in DOMAIN handles' :
                        /\ handles'[h].role = last'.role
                        /\ handles'[h].id_ = last'.id_ } = {new}
                 /\ last'.oldProc = None
                 /\ calls[Len(calls)].call = "run"
                 /\ handles'[new].proc = calls[Len(calls)].p
                 /\ p = None => Len(calls) = 1
                 /\ p # None =>
                      /\ Len(calls) = 3
                      /\ calls[1].call = "close" /\ calls[1].p = p
                      /\ calls[2].call = "wait" /\ calls[2].p = p
                      /\ calls[2].exc = "none"
                      /\ p \notin DOMAIN procs' ]_vars

\* add_daemon replaced a running daemon: it closed, waited and launched
W_C5_ReplacedRunning ==
    /\ last.op = "add_daemon" /\ last.exc = "none" /\ last.old # None
    /\ Len(last.calls) = 3
    /\ EntryOf(daemons, last.role, last.id_) = last.h
    /\ running(Here, last.h)

\* C6: a stop whose wait raises ends with that failure and leaves the
\* DaemonState running() with the process it had; a reset() that follows
\* makes running() false.
C6_FailedStopKeepsProc ==
    [][ /\ ( /\ last'.op = "stop" /\ Len(last'.calls) = 2
             /\ last'.calls[2].exc # "none" )
           => /\ last'.exc = last'.calls[2].exc
              /\ last'.exc \in {"Timeout", "CommandFailedError",
                                "CommandCrashedError", "ConnectionLostError"}
              /\ handles[last'.h].proc # None
              /\ handles'[last'.h].proc = handles[last'.h].proc
              /\ handles'[last'.h].proc \in DOMAIN procs'
        /\ ( /\ last.op = "stop" /\ last.exc # "none"
             /\ last'.op = "reset" /\ last'.h = last.h )
           => /\ handles[last.h].proc # None
              /\ handles'[last.h].proc = None
              /\ last'.exc = "none" ]_vars

\* a stop timed out and the DaemonState still has its process
W_C6_StopTimedOut ==
    /\ last.op = "stop" /\ last.exc = "Timeout"
    /\ running(Here, last.h)
    /\ Alive(handles[last.h].proc)

\* C7: wait_for_exit ends with proc None whether the wait returned or
\* raised, ends with the failure of the wait if it raised, and on a
\* DaemonState that is not running it waits for nothing and changes nothing.
C7_WaitForExitAlwaysClears ==
    [][ last'.op = "wait_for_exit" =>
          LET p == handles[last'.h].proc
          IN /\ handles'[last'.h].proc = None
             /\ p = None => /\ last'.calls = <<>> /\ last'.exc = "none"
                            /\ UNCHANGED <<handles, procs, daemons>>
             /\ p # None => /\ Len(last'.calls) = 1
                            /\ last'.calls[1].call = "wait"
                            /\ last'.calls[1].p = p
                            /\ last'.exc = last'.calls[1].exc ]_vars

\* a wait_for_exit lost the connection and the DaemonState is stopped
W_C7_WaitFailedCleared ==
    /\ last.op = "wait_for_exit" /\ last.exc = "ConnectionLostError"
    /\ Len(last.calls) = 1
    /\ ~running(Here, last.h)

\* the processes launched from DaemonState h that have not exited
LiveOf(h) == { p \in DOMAIN procs : procs[p].owner = h /\ procs[p].alive }

\* C8 as claimed: at most one process launched from a DaemonState is alive
\* at any moment, whatever calls were made on it.
C8_AtMostOneLiveProcess ==
    \A h \in DOMAIN handles : Cardinality(LiveOf(h)) <= 1

\* C8 as amended: a live process launched from a DaemonState is the one the
\* DaemonState refers to, or one that reset() or a wait_for_exit whose wait
\* failed let go of while it was alive; stop, restart and restart_with_args
\* never let go of a live process, so apart from those abandoned processes
\* at most one is alive.
C8_OnlyAbandonedOverlap ==
    \A h \in DOMAIN handles :
        /\ \A p \in LiveOf(h) :
              p # handles[h].proc =>
                  procs[p].droppedBy \in {"reset", "wait_for_exit"}
        /\ Cardinality({ p \in LiveOf(h) :
                           procs[p].droppedBy \notin {"reset", "wait_for_exit"} }) <= 1

\* a DaemonState was restarted after reset() let go of a live process: two
\* of its processes are alive
W_C8_RestartAfterReset ==
    \E h \in DOMAIN handles :
        /\ last.op \in {"restart", "restart_with_args"} /\ last.h = h
        /\ Len(last.calls) = 1
        /\ Cardinality(LiveOf(h)) = 2
        /\ \E p \in LiveOf(h) : procs[p].droppedBy = "reset"

\* C9: stop on a DaemonState that is not running raises nothing, closes and
\* waits for nothing, and changes neither the DaemonState nor any process.
C9_StopNotRunningNoOp ==
    [][ (last'.op = "stop" /\ handles[last'.h].proc = None) =>
          /\ last'.exc = "none"
          /\ last'.calls = <<>>
          /\ UNCHANGED <<handles, procs, daemons>> ]_vars

\* a stop returned on a DaemonState that was not running
W_C9_StoppedTwice ==
    /\ last.op = "stop" /\ last.exc = "none" /\ last.calls = <<>>
    /\ ~running(Here, last.h)

\* no DaemonState is registered under role with an id equal, as a string,
\* to id_
Unregistered(ds, role, id_) ==
    role \notin DOMAIN ds \/ \A k \in DOMAIN ds[role] : Str(k) # Str(id_)

\* C10: get_daemon for a (role, id_) with no registered DaemonState (the
\* role unknown, or the role known and the id not) returns None, raises
\* nothing and leaves the registry as it is.
C10_GetUnregisteredIsNone ==
    [][ last'.op = "get_daemon" =>
          /\ Unregistered(daemons, last'.role, last'.id_) =>
                 last'.ret = None /\ last'.exc = "none"
          /\ UNCHANGED <<handles, procs, daemons>> ]_vars

\* get_daemon returned None for an unknown id of a known role
W_C10_KnownRoleUnknownId ==
    /\ last.op = "get_daemon" /\ last.ret = None /\ last.exc = "none"
    /\ last.role \in DOMAIN daemons
    /\ DOMAIN daemons[last.role] # {}
    /\ Unregistered(daemons, last.role, last.id_)

\* C11: ids are stored and compared as strings: get_daemon(role, id_) right
\* after an add_daemon(remote, role, id_, ...) that returned gives the
\* DaemonState that add_daemon installed, and no role holds two DaemonStates
\* under ids that are equal as strings.
C11_IdsComparedAsStrings ==
    /\ (last.op = "add_daemon" /\ last.exc = "none") =>
           get_daemon(daemons, last.role, last.id_).ret = last.h
    /\ \A r \in DOMAIN daemons : \A k1, k2 \in DOMAIN daemons[r] :
           Str(k1) = Str(k2) => k1 = k2

\* the byte that is the two's complement encoding of sig, -128 <= sig <= 127
SignedByte(sig) == IF sig < 0 THEN 256 + sig ELSE sig

\* C12: signal(sig) on a running DaemonState, -128 <= sig <= 127, makes one
\* write on the current process, of the one byte that encodes sig as a
\* signed 8-bit integer (signal(1) writes 0x01), and leaves the DaemonState
\* with the same process and template.
C12_SignalWritesOneSignedByte ==
    [][ ( /\ last'.op = "signal" /\ handles[last'.h].proc # None
          /\ last'.sig >= -128 /\ last'.sig <= 127 )
        => /\ Len(last'.calls) = 1
           /\ last'.calls[1].call = "write"
           /\ last'.calls[1].p = handles[last'.h].proc
           /\ last'.calls[1].args = << SignedByte(last'.sig) >>
           /\ last'.sig = 1 => last'.calls[1].args = << 1 >>
           /\ last'.exc = last'.calls[1].exc
           /\ UNCHANGED <<handles, procs, daemons>> ]_vars

\* signal(-1) returned on a running DaemonState: the byte 0xff was written
W_C12_MinusOneWritten ==
    /\ last.op = "signal" /\ last.sig = -1 /\ last.exc = "none"
    /\ Len(last.calls) = 1 /\ last.calls[1].args = << 255 >>
    /\ running(Here, last.h)

\* C13: an add_daemon for a (role, id_) whose DaemonState is running and
\* whose stop fails ends with that failure and replaces nothing: the
\* registry maps (role, id_) to the old DaemonState, which keeps its
\* process, no DaemonState is made and no process is launched.
C13_FailedStopAbortsReplacement ==
    [][ ( /\ last'.op = "add_daemon" /\ Len(last'.calls) >= 2
          /\ last'.calls[2].call = "wait" /\ last'.calls[2].exc # "none" )
        => LET old == EntryOf(daemons, last'.role, last'.id_)
           IN /\ old # None /\ handles[old].proc # None
              /\ last'.exc = last'.calls[2].exc
              /\ daemons' = daemons
              /\ DOMAIN handles' = DOMAIN handles
              /\ last'.h = None
              /\ handles'[old].proc = handles[old].proc
              /\ handles'[old].proc \in DOMAIN procs'
              /\ DOMAIN procs' = DOMAIN procs
              /\ Len(last'.calls) = 2 ]_vars

\* an add_daemon on a running daemon timed out in the stop; the old
\* DaemonState is still registered and running
W_C13_ReplaceTimedOut ==
    /\ last.op = "add_daemon" /\ last.exc = "Timeout" /\ last.h = None
    /\ EntryOf(daemons, last.role, last.id_) # None
    /\ running(Here, EntryOf(daemons, last.role, last.id_))

\* C14: a restart that returns has merged its keyword overrides into the
\* stored keyword options (each key of the overrides has its new value, the
\* other options are as they were) and launched with the result; a
\* restart() with no new arguments that follows launches with those values.
C14_RestartMergesKwargs ==
    [][ /\ (last'.op = "restart" /\ last'.exc = "none") =>
             LET t == handles[last'.h].command_kwargs
                 t2 == handles'[last'.h].command_kwargs
                 kw == last'.kwargs
             IN /\ DOMAIN t2 = (DOMAIN t) \cup (DOMAIN kw)
                /\ \A k \in DOMAIN kw : t2[k] = kw[k]
                /\ \A k \in (DOMAIN t) \ (DOMAIN kw) : t2[k] = t[k]
                /\ Launched(last').kwargs = t2
        /\ ( /\ last.op = "restart" /\ last.exc = "none" /\ last.kwargs # EmptyKw
             /\ last'.op = "restart" /\ last'.h = last.h
             /\ last'.kwargs = EmptyKw /\ last'.exc = "none" )
           => \A k \in DOMAIN last.kwargs :
                 /\ k \in DOMAIN Launched(last').kwargs
                 /\ Launched(last').kwargs[k] = last.kwargs[k] ]_vars

\* restart(args=["-y"]) returned on a DaemonState whose stored options have
\* the logger of an earlier restart: both are stored
W_C14_OverrodeArgs ==
    /\ last.op = "restart" /\ last.exc = "none"
    /\ last.kwargs = [k \in {"args"} |-> <<"-y">>]
    /\ handles[last.h].command_kwargs =
           [k \in {"args", "logger"} |-> IF k = "args" THEN <<"-y">> ELSE <<"L2">>]

\* C15: a restart or restart_with_args on a running DaemonState whose stop
\* fails ends with that failure, launches nothing, leaves the stored
\* template without the call's extras and overrides, and leaves the
\* DaemonState running with the process it had.
C15_FailedStopAbortsRestart ==
    [][ ( /\ last'.op \in {"restart", "restart_with_args"}
          /\ Len(last'.calls) >= 2
          /\ last'.calls[2].call = "wait" /\ last'.calls[2].exc # "none" )
        => /\ handles[last'.h].proc # None
           /\ last'.exc = last'.calls[2].exc
           /\ Len(last'.calls) = 2
           /\ DOMAIN procs' = DOMAIN procs
           /\ handles'[last'.h].command_args = handles[last'.h].command_args
           /\ handles'[last'.h].command_kwargs = handles[last'.h].command_kwargs
           /\ handles'[last'.h].proc = handles[last'.h].proc
           /\ handles'[last'.h].proc \in DOMAIN procs' ]_vars

\* a restart with extras and overrides failed in its stop: the DaemonState
\* is running and the override is not in the stored options
W_C15_RestartStopFailed ==
    /\ last.op = "restart" /\ last.exc = "CommandFailedError"
    /\ last.args # <<>> /\ last.kwargs = [k \in {"logger"} |-> <<"L2">>]
    /\ running(Here, last.h)
    /\ "logger" \notin DOMAIN handles[last.h].command_kwargs

\* C16: signal(sig) on a DaemonState that is not running ends in an error
\* (the attribute access on the null reference), writes nothing, and leaves
\* the DaemonState stopped with its template.
C16_SignalNotRunningFails ==
    [][ (last'.op = "signal" /\ handles[last'.h].proc = None) =>
          /\ last'.exc = "AttributeError"
          /\ last'.calls = <<>>
          /\ handles'[last'.h].proc = None
          /\ UNCHANGED <<handles, procs, daemons>> ]_vars

\* signal(1) failed on a DaemonState that is not running
W_C16_SignalOnStopped ==
    /\ last.op = "signal" /\ last.sig = 1 /\ last.exc = "AttributeError"
    /\ last.calls = <<>>
    /\ ~running(Here, last.h)

\* the (role, id_) pairs that have an entry in the registry
Keys(ds) == UNION { { <<r, i>> : i \in DOMAIN ds[r] } : r \in DOMAIN ds }

\* C17: the registry never removes an entry: in every step the registered
\* roles and (role, id_) pairs stay, every pair maps to a DaemonState (never
\* to None), get_daemon, iter_daemons_of_role and the DaemonState methods
\* leave the registry as it is, and a DaemonState leaves the registry only
\* in an add_daemon for its own (role, id_) that puts a new one in its place.
C17_RegistryNeverRemoves ==
    [][ /\ DOMAIN daemons \subseteq DOMAIN daemons'
        /\ Keys(daemons) \subseteq Keys(daemons')
        /\ \A k \in Keys(daemons') :
              /\ daemons'[k[1]][k[2]] # None
              /\ daemons'[k[1]][k[2]] \in DOMAIN handles'
        /\ last'.op # "add_daemon" => daemons' = daemons
        /\ \A h \in Registered(daemons) \ Registered(daemons') :
              /\ last'.op = "add_daemon"
              /\ handles[h].role = last'.role /\ handles[h].id_ = last'.id_
              /\ EntryOf(daemons, last'.role, last'.id_) = h
              /\ last'.h # None
              /\ EntryOf(daemons', last'.role, last'.id_) = last'.h ]_vars

\* an add_daemon replaced the entry of one of two registered keys
W_C17_ReplacedOneOfTwo ==
    /\ last.op = "add_daemon" /\ last.old # None /\ last.h # None
    /\ Cardinality(Keys(daemons)) = 2
    /\ EntryOf(daemons, last.role, last.id_) = last.h

\* DaemonState h of heaps hs, ps is running and the control channel of its
\* process is closed
Stale(hs, ps, h) ==
    /\ h \in DOMAIN hs
    /\ hs[h].proc # None
    /\ ps[hs[h].proc].stdinClosed

\* C18: stop closes the control channel and then waits, and nothing reopens
\* a channel; after a stop whose wait failed the DaemonState is running with
\* the channel of its process closed; that state ends only in a reset, in a
\* wait_for_exit (whether its wait returns or fails) or in a stop that
\* succeeds (called directly or by restart, restart_with_args, add_daemon);
\* and a signal in that state makes its write on the closed channel.
C18_FailedStopLeavesClosedChannel ==
    [][ /\ (last'.op = "stop" /\ handles[last'.h].proc # None) =>
             /\ Len(last'.calls) = 2
             /\ last'.calls[1].call = "close"
             /\ last'.calls[1].p = handles[last'.h].proc
             /\ last'.calls[2].call = "wait"
             /\ last'.calls[2].p = handles[last'.h].proc
        /\ \A h \in (DOMAIN handles) \cap (DOMAIN handles') :
             ( /\ Stale(handles, procs, h)
               /\ handles'[h].proc = handles[h].proc )
             => Stale(handles', procs', h)
        /\ (last'.op = "stop" /\ last'.exc # "none") =>
             Stale(handles', procs', last'.h)
        /\ \A h \in DOMAIN handles :
             (Stale(handles, procs, h) /\ ~Stale(handles', procs', h)) =>
                \/ last'.op \in {"reset", "wait_for_exit"} /\ last'.h = h
                \/ /\ last'.op \in {"stop", "restart", "restart_with_args", "add_daemon"}
                   /\ Len(last'.calls) >= 2
                   /\ last'.calls[1].call = "close"
                   /\ last'.calls[1].p = handles[h].proc
                   /\ last'.calls[2].call = "wait"
                   /\ last'.calls[2].p = handles[h].proc
                   /\ last'.calls[2].exc = "none"
        /\ ( /\ last'.op = "signal" /\ Stale(handles, procs, last'.h)
             /\ last'.sig >= -128 /\ last'.sig <= 127 )
           => /\ Len(last'.calls) = 1
              /\ last'.calls[1].call = "write"
              /\ last'.calls[1].p = handles[last'.h].proc
              /\ procs'[last'.calls[1].p].stdinClosed
              /\ Stale(handles', procs', last'.h) ]_vars

\* a signal was written to the closed channel of a running DaemonState
W_C18_SignalOnClosedChannel ==
    /\ last.op = "signal" /\ Len(last.calls) = 1
    /\ last.calls[1].call = "write"
    /\ Stale(handles, procs, last.h)
    /\ last.calls[1].p = handles[last.h].proc

\* C19: restart_with_args on a running DaemonState whose stored keyword
\* options have no args option, when its stop succeeds, fails with the
\* missing key after the stop: it ends with a failure, launches nothing,
\* and leaves the DaemonState stopped.
C19_RestartWithArgsNotAtomic ==
    [][ ( /\ last'.op = "restart_with_args"
          /\ handles[last'.h].proc # None
          /\ "args" \notin DOMAIN handles[last'.h].command_kwargs
          /\ Len(last'.calls) >= 2 /\ last'.calls[2].exc = "none" )
        => /\ last'.exc = "KeyError"
           /\ Len(last'.calls) = 2
           /\ last'.calls[1].call = "close" /\ last'.calls[2].call = "wait"
           /\ handles'[last'.h].proc = None
           /\ handles[last'.h].proc \notin DOMAIN procs'
           /\ handles'[last'.h].command_kwargs = handles[last'.h].command_kwargs ]_vars

\* restart_with_args stopped the daemon and failed on the missing option
W_C19_StoppedThenKeyError ==
    /\ last.op = "restart_with_args" /\ last.exc = "KeyError"
    /\ Len(last.calls) = 2 /\ last.calls[2].call = "wait"
    /\ ~running(Here, last.h)
    /\ "args" \notin DOMAIN handles[last.h].command_kwargs

\* the launch of recorded call l was made and failed
LaunchFailed(l) ==
    /\ Len(l.calls) >= 1
    /\ Launched(l).call = "run"
    /\ Launched(l).exc # "none"

\* C20: an add_daemon whose launch fails ends with that failure and has
\* replaced all the same: the registry maps (role, id_) to the new
\* DaemonState, which is stopped, and the DaemonState that was there has
\* been stopped and is gone.  A restart whose launch fails ends with that
\* failure, stopped, with its keyword overrides in the stored options.
C20_FailedLaunchAfterReplacement ==
    [][ /\ (last'.op = "add_daemon" /\ LaunchFailed(last')) =>
             LET old == EntryOf(daemons, last'.role, last'.id_)
                 new == EntryOf(daemons', last'.role, last'.id_)
             IN /\ last'.exc = Launched(last').exc
                /\ new # None /\ new = last'.h
                /\ handles'[new].proc = None
                /\ handles'[new].command_kwargs = last'.kwargs
                /\ old # None =>
                     /\ new # old /\ old \notin Registered(daemons')
                     /\ last'.old = old /\ last'.oldProc = None
                     /\ handles[old].proc # None =>
                          handles[old].proc \notin DOMAIN procs'
        /\ (last'.op = "restart" /\ LaunchFailed(last')) =>
             /\ last'.exc = Launched(last').exc
             /\ handles'[last'.h].proc = None
             /\ handles[last'.h].proc # None =>
                  handles[last'.h].proc \notin DOMAIN procs'
             /\ \A k \in DOMAIN last'.kwargs :
                  /\ k \in DOMAIN handles'[last'.h].command_kwargs
                  /\ handles'[last'.h].command_kwargs[k] = last'.kwargs[k] ]_vars

\* an add_daemon stopped the running daemon of its key and failed to launch
\* the new one, which is registered and stopped
W_C20_ReplacedThenLaunchFailed ==
    /\ last.op = "add_daemon" /\ last.exc = "ConnectionLostError"
    /\ Len(last.calls) = 3 /\ LaunchFailed(last)
    /\ last.old # None /\ last.h # None
    /\ EntryOf(daemons, last.role, last.id_) = last.h
    /\ ~running(Here, last.h)

====
